---- MODULE Spec2Model ----
(***************************************************************************)
(* Variational Monte Carlo solver (VMCSolver) and the MPI bootstrap of     *)
(* qflow.                                                                  *)
(*                                                                         *)
(* Real numbers (C++ double) are fixed-point integers: the integer x       *)
(* stands for the real x / Scale.  Products, quotients, square roots and   *)
(* exponentials are computed digit by digit so that no intermediate value  *)
(* leaves the 32-bit range of TLC's integers.  The two values of a double  *)
(* that are no numbers are the strings "NaN" and "Inf".                    *)
(***************************************************************************)
EXTENDS Integers, Sequences, FiniteSets, TLC

(* ---------------------------------------------------------------------- *)
(* Fixed-point arithmetic                                                  *)
(* ---------------------------------------------------------------------- *)

\* One unit in the last place is 1 / Scale = 1e-6.
Radix == 10 * 10 * 10
Scale == Radix * Radix

Abs(x) == IF x < 0 THEN -x ELSE x

Sgn(x) == IF x < 0 THEN -1 ELSE 1

\* The real k / den as a fixed-point number (k, den small integers).
Fx(k, den) == (k * Scale) \div den

\* |a| * |b| / Scale, rounded down, by base-Radix digits of a and b.
MulMag(a, b) ==
    LET a2 == a \div Scale
        a1 == (a % Scale) \div Radix
        a0 == a % Radix
        b2 == b \div Scale
        b1 == (b % Scale) \div Radix
        b0 == b % Radix
    IN  a2 * b2 * Scale
        + (a2 * b1 + a1 * b2) * Radix
        + (a2 * b0 + a1 * b1 + a0 * b2)
        + ((a1 * b0 + a0 * b1) * Radix + a0 * b0) \div Scale

\* a * b on doubles.
MulFx(a, b) == Sgn(a) * Sgn(b) * MulMag(Abs(a), Abs(b))

\* Long division: `digits` more decimal digits of r / b appended to q.
RECURSIVE LongDiv(_, _, _, _)
LongDiv(q, r, b, digits) ==
    IF digits = 0 THEN q
    ELSE LongDiv(q * 10 + (r * 10) \div b, (r * 10) % b, b, digits - 1)

\* a / b on doubles, b # 0.
DivFx(a, b) ==
    Sgn(a) * Sgn(b) * LongDiv(Abs(a) \div Abs(b), Abs(a) % Abs(b), Abs(b), 6)

\* Integer square root of n >= 0 by bisection on lo..hi (lo^2 <= n < hi^2).
RECURSIVE ISqrt(_, _, _)
ISqrt(n, lo, hi) ==
    IF hi - lo <= 1 THEN lo
    ELSE LET mid == (lo + hi) \div 2
         IN  IF mid * mid <= n THEN ISqrt(n, mid, hi) ELSE ISqrt(n, lo, mid)

\* Newton steps s <- (s + x / s) / 2 on doubles until s stops decreasing.
RECURSIVE Newton(_, _, _)
Newton(x, s, fuel) ==
    LET t == (s + DivFx(x, s)) \div 2
    IN  IF fuel = 0 \/ t >= s THEN s ELSE Newton(x, t, fuel - 1)

\* sqrt(x) on doubles, x >= 0.
SqrtFx(x) ==
    IF x = 0 THEN 0
    ELSE Newton(x, (ISqrt(x, 0, 46341) + 1) * Radix, 8)

\* Sum of the series 1 + u + u^2/2! + ... for u >= 0, from term number k on.
RECURSIVE ExpSeries(_, _, _)
ExpSeries(u, term, k) ==
    IF term = 0 THEN 0
    ELSE term + ExpSeries(u, MulFx(term, u) \div k, k + 1)

\* std::exp(x) on doubles for x <= 0: 1 / exp(-x), the argument halved
\* (and the result squared) while it is below -4.
RECURSIVE ExpFx(_)
ExpFx(x) ==
    IF - x > 4 * Scale
    THEN LET e == ExpFx(- ((- x) \div 2)) IN MulFx(e, e)
    ELSE DivFx(Scale, ExpSeries(- x, Scale, 1))

(* ---------------------------------------------------------------------- *)
(* Doubles that may be no number                                           *)
(* ---------------------------------------------------------------------- *)

\* Where a double may be NaN, an infinity or numeric_limits<double>::max(),
\* it is a record: a tag and, for tag "num", the fixed-point value.
Num(x) == [tag |-> "num", v |-> x]
NaN == [tag |-> "nan", v |-> 0]
PosInf == [tag |-> "inf", v |-> 0]
NegInf == [tag |-> "-inf", v |-> 0]
MaxDouble == [tag |-> "max", v |-> 0]

IsNum(x) == x.tag = "num"

\* x / y on doubles where y may be zero (x, y fixed-point numbers).
DivD(x, y) ==
    IF y # 0 THEN Num(DivFx(x, y))
    ELSE IF x = 0 THEN NaN
    ELSE IF x > 0 THEN PosInf ELSE NegInf

\* x + y on doubles: NaN is absorbing, inf + -inf is NaN, the sum of two
\* numeric_limits<double>::max() overflows to inf, and a number added to
\* max() is rounded away.
AddD(x, y) ==
    IF x.tag = "nan" \/ y.tag = "nan" THEN NaN
    ELSE IF {x.tag, y.tag} = {"inf", "-inf"} THEN NaN
    ELSE IF x.tag = "inf" \/ y.tag = "inf" THEN PosInf
    ELSE IF x.tag = "-inf" \/ y.tag = "-inf" THEN NegInf
    ELSE IF x.tag = "max" /\ y.tag = "max" THEN PosInf
    ELSE IF x.tag = "max" \/ y.tag = "max" THEN MaxDouble
    ELSE CASE IsNum(x) /\ IsNum(y) -> Num(x.v + y.v)

\* - x on a number, NaN or an infinity.
NegD(x) ==
    CASE x.tag = "num" -> Num(- x.v)
      [] x.tag = "nan" -> NaN
      [] x.tag = "inf" -> NegInf
      [] x.tag = "-inf" -> PosInf

\* x - y on doubles, y a number, NaN or an infinity.
SubD(x, y) == AddD(x, NegD(y))

\* x * x on doubles: the square of an infinity or of max() is inf.
SquareD(x) ==
    CASE x.tag = "num" -> Num(MulFx(x.v, x.v))
      [] x.tag = "nan" -> NaN
      [] x.tag \in {"inf", "-inf", "max"} -> PosInf

\* x / n for a double x (a number, NaN or an infinity) and an int n >= 0.
DivByCount(x, n) ==
    CASE x.tag = "num" -> DivD(x.v, n * Scale)
      [] x.tag = "nan" -> NaN
      [] x.tag = "inf" -> PosInf
      [] x.tag = "-inf" -> NegInf

\* x < y on doubles: false when either is NaN.
LessD(x, y) ==
    CASE x.tag = "nan" \/ y.tag = "nan" -> FALSE
      [] x.tag = "-inf" -> y.tag # "-inf"
      [] x.tag = "inf" -> FALSE
      [] x.tag = "max" -> y.tag = "inf"
      [] OTHER -> y.tag \in {"inf", "max"} \/ (IsNum(y) /\ x.v < y.v)

\* x <= y on doubles: false when either is NaN.
LeqD(x, y) == x.tag # "nan" /\ y.tag # "nan" /\ (x = y \/ LessD(x, y))

(* ---------------------------------------------------------------------- *)
(* VMCSolver: configuration and state                                      *)
(* ---------------------------------------------------------------------- *)

VARIABLES
    config,          \* _config: the VMCConfiguration of the solver
    alpha,           \* _alpha
    beta,            \* _beta
    dist,            \* dist: the distance cache, dist[i][j] used for i < j
    R_old,           \* run_MC: accepted positions, R_old[i][d] is R_old(d, i)
    R_new,           \* run_MC: trial positions; the argument R of E_local
    Psi_old,         \* run_MC: wavefunction value of the accepted positions
    accepted_moves,  \* run_MC: counter of accepted moves
    cycle,           \* run_MC: loop variable of the outer loop
    particle,        \* run_MC: loop variable i of the inner loop
    n_cycles,        \* run_MC / vmc: the argument n_cycles
    pc,              \* position of the running function
    ret,             \* value returned by the function that ran last
    out,             \* vmc: the lines written to the stream out, in order
    flushes,         \* vmc: number of std::flush written to out
    best,            \* vmc: the local best
    grid,            \* vmc: alphas and betas, and the arguments they come from
    idx,             \* vmc: positions of the two range-for loops
    res,             \* vmc: the local res
    evaluated,       \* history: the Results of the run_MC calls of the sweep
    mpi,             \* per process: MPI library state and the atexit hooks
    rand_gen,        \* rand_gen: its seed and the number of values drawn
                     \* (per process where several processes run)
    rank,            \* per process: what get_rank() returns
    calls            \* history: per process, calls of initialize_mpi so far

solverVars == <<config, alpha, beta, dist, R_old, R_new, Psi_old,
                accepted_moves, cycle, particle, n_cycles>>

sweepVars == <<out, flushes, best, grid, idx, res, evaluated>>

mpiVars == <<mpi, rand_gen, rank, calls>>

vars == <<solverVars, pc, ret, sweepVars, mpiVars>>

Particles == 0 .. config.n_particles - 1

Dims == 0 .. config.dims - 1

Pairs == {p \in Particles \X Particles : p[1] < p[2]}

\* arma::zeros<arma::mat>(rows, cols), indexed [col][row] or [row][col].
Zeros(rows, cols) == [r \in rows |-> [c \in cols |-> 0]]

\* f[0] + ... + f[k - 1].
RECURSIVE SumUpTo(_, _)
SumUpTo(f, k) == IF k = 0 THEN 0 ELSE SumUpTo(f, k - 1) + f[k - 1]

\* arma::dot(u, v) of two columns.
Dot(u, v) == SumUpTo([d \in Dims |-> MulFx(u[d], v[d])], config.dims)

\* arma::norm(u - v) of two columns.
NormDiff(u, v) ==
    LET w == [d \in Dims |-> u[d] - v[d]] IN SqrtFx(Dot(w, w))

(* ---------------------------------------------------------------------- *)
(* Distance cache                                                          *)
(* ---------------------------------------------------------------------- *)

\* The cache after initialize_distance_matrix(R) on the cache d.
initialize_distance_matrix(d, R) ==
    [i \in Particles |-> [j \in Particles |->
        IF i < j THEN NormDiff(R[i], R[j]) ELSE d[i][j]]]

\* update_distance_matrix without its second loop (the column of p).
update_distance_matrix_row_only(d, p, R) ==
    [i \in Particles |-> [j \in Particles |->
        IF i = p /\ j > p THEN NormDiff(R[p], R[j]) ELSE d[i][j]]]

\* The cache after update_distance_matrix(p, R) on the cache d: row p to the
\* right of the diagonal, column p above it.
update_distance_matrix(d, p, R) ==
    [i \in Particles |-> [j \in Particles |->
        IF i = p /\ j > p THEN NormDiff(R[p], R[j])
        ELSE IF j = p /\ i < p THEN NormDiff(R[i], R[p])
        ELSE d[i][j]]]

(* ---------------------------------------------------------------------- *)
(* Potentials and wavefunction                                             *)
(* ---------------------------------------------------------------------- *)

V_ext(R) ==
    LET pot == [i \in Particles |->
            IF config.ho_type = "ELLIPTICAL" /\ config.dims = 3
            THEN MulFx(config.omega_ho,
                       MulFx(R[i][0], R[i][0]) + MulFx(R[i][1], R[i][1]))
                 + MulFx(config.omega_z, MulFx(R[i][2], R[i][2]))
            ELSE MulFx(config.omega_ho, Dot(R[i], R[i]))]
    IN  MulFx(Fx(1, 2), SumUpTo(pot, config.n_particles))

\* Whether some cached distance is at or below the hard-sphere radius.
Overlap(d) == \E p \in Pairs : d[p[1]][p[2]] <= config.a

V_int(d) ==
    IF config.interaction = "OFF" THEN Num(0)
    ELSE IF Overlap(d) THEN MaxDouble
    ELSE Num(0)

\* The pairs of loops whose inner bound is one short (j < n_particles - 1).
RECURSIVE PairSeqShort(_, _)
PairSeqShort(i, j) ==
    IF i >= config.n_particles THEN <<>>
    ELSE IF j >= config.n_particles - 1 THEN PairSeqShort(i + 1, i + 2)
    ELSE <<<<i, j>>>> \o PairSeqShort(i, j + 1)

\* The pairs (i, j), i < j, in the order of the two nested loops.
RECURSIVE PairSeq(_, _)
PairSeq(i, j) ==
    IF i >= config.n_particles THEN <<>>
    ELSE IF j >= config.n_particles THEN PairSeq(i + 1, i + 2)
    ELSE <<<<i, j>>>> \o PairSeq(i, j + 1)

\* The loop of Psi_f from pair number k on, f the product so far: returns 0
\* at the first pair at or below the hard-sphere radius.
RECURSIVE Psi_f_loop(_, _, _, _)
Psi_f_loop(d, pairs, k, f) ==
    IF k > Len(pairs) THEN f
    ELSE LET r_ij == d[pairs[k][1]][pairs[k][2]]
         IN  IF r_ij <= config.a THEN 0
             ELSE Psi_f_loop(d, pairs, k + 1,
                             MulFx(f, Scale - DivFx(config.a, r_ij)))

Psi_f(d) ==
    IF config.interaction = "OFF" THEN Scale
    ELSE Psi_f_loop(d, PairSeq(0, 1), 1, Scale)

Psi_g(R) ==
    LET g == SumUpTo([i \in Particles |-> Dot(R[i], R[i])], config.n_particles)
    IN  ExpFx(- MulFx(alpha, g))

Psi(R, d) == MulFx(Psi_g(R), Psi_f(d))

(* ---------------------------------------------------------------------- *)
(* Local energy                                                            *)
(* ---------------------------------------------------------------------- *)

\* The conversion of the double x to int: truncation toward zero.
TruncToInt(x) == Sgn(x) * (Abs(x) \div Scale)

\* R with coordinate d of particle i set to x.
SetCoord(R, i, d, x) == [R EXCEPT ![i][d] = x]

\* update_distance_matrix as E_kinetic calls it: only with interaction ON.
KineticUpdate(d, i, R) ==
    IF config.interaction = "ON" THEN update_distance_matrix(d, i, R) ELSE d

\* One pass of the body of E_kinetic's loops, for coordinate d of
\* particle i; st holds Ek, R and the cache.
KineticStep(st, i, d) ==
    LET temp == st.R[i][d]
        Rp == SetCoord(st.R, i, d, temp + config.h)
        dp == KineticUpdate(st.dist, i, Rp)
        Rm == SetCoord(Rp, i, d, temp - config.h)
        dm == KineticUpdate(dp, i, Rm)
        R0 == SetCoord(Rm, i, d, temp)
        d0 == KineticUpdate(dm, i, R0)
    IN  [Ek |-> st.Ek + Psi(Rp, dp) + Psi(Rm, dm), R |-> R0, dist |-> d0]

\* The loops of E_kinetic from coordinate number k on (k = i * dims + d).
RECURSIVE KineticLoop(_, _)
KineticLoop(st, k) ==
    IF k >= config.n_particles * config.dims THEN st
    ELSE KineticLoop(KineticStep(st, k \div config.dims, k % config.dims),
                     k + 1)

\* E_kinetic(R) on the cache d: the value, and R and the cache as left.
E_kinetic(R, d) ==
    LET st == KineticLoop(
            [Ek |-> - 2 * (config.n_particles * config.dims) * Psi(R, d),
             R |-> R, dist |-> d], 0)
    IN  [val |-> MulFx(MulFx(- Fx(1, 2), st.Ek), config.h2),
         R |-> st.R, dist |-> st.dist]

\* The analytic local energy without interaction (lines 131-153, 181).
\* one_body_beta_term is an int: -(2 + _beta) is truncated toward zero.
E_local_analytic(R) ==
    LET one_body_beta_term ==
            - (IF config.dims = 3 THEN TruncToInt(2 * Scale + beta)
               ELSE config.dims)
        skewed(k) == [d \in Dims |->
            IF config.dims = 3 /\ d = 2 THEN MulFx(R[k][d], beta) ELSE R[k][d]]
        first(k) == MulFx(2 * alpha,
            MulFx(2 * alpha, Dot(skewed(k), skewed(k)))
            + one_body_beta_term * Scale)
        E_L == SumUpTo([k \in Particles |-> first(k)], config.n_particles)
    IN  V_ext(R) - MulFx(Fx(1, 2), E_L)

\* E_local(R) on the cache d: the value, and R and the cache as left.
\* With interaction ON the analytic value has the two- and three-body terms
\* of lines 156-179, which no decision of the sampler reads: the value is
\* then left open (tag "interacting").
E_local(R, d) ==
    IF config.acceleration = "OFF"
    THEN LET k == E_kinetic(R, d)
         IN  [val |-> AddD(AddD(DivD(k.val, Psi(k.R, k.dist)),
                                Num(V_ext(k.R))), V_int(k.dist)),
              R |-> k.R, dist |-> k.dist]
    ELSE [val |-> IF config.interaction = "OFF"
                  THEN Num(E_local_analytic(R))
                  ELSE [tag |-> "interacting", v |-> 0],
          R |-> R, dist |-> d]

(* ---------------------------------------------------------------------- *)
(* Inputs                                                                  *)
(* ---------------------------------------------------------------------- *)

\* Largest particle count and cycle count of the runs explored.
MaxParticles == 3
MaxCycles == 2

\* A VMCConfiguration; h2 is 1 / (h * h) as main sets it.
MkConfig(ho, inter, acc, nd, np, hh) ==
    [ho_type |-> ho, interaction |-> inter, acceleration |-> acc,
     dims |-> nd, n_particles |-> np,
     omega_ho |-> Scale, omega_z |-> 2 * Scale,
     a |-> Fx(1, 2), h |-> hh, h2 |-> DivFx(Scale, MulFx(hh, hh)),
     step_length |-> Scale]

\* The position arrays of np particles in nd dimensions over the
\* coordinate values cs.
Positions(np, nd, cs) == [0 .. np - 1 -> [0 .. nd - 1 -> cs]]

\* The state of the parts that a specification does not run.
IdleSolver ==
    /\ alpha = Fx(1, 2) /\ beta = Scale
    /\ R_old = <<>> /\ Psi_old = 0
    /\ accepted_moves = 0 /\ cycle = 0 /\ particle = 0 /\ n_cycles = 0

IdleSweep ==
    /\ out = <<>> /\ flushes = 0 /\ best = <<>> /\ grid = <<>>
    /\ idx = <<>> /\ res = <<>> /\ evaluated = <<>>

IdleMpi == mpi = <<>> /\ rand_gen = <<>> /\ rank = <<>> /\ calls = <<>>

\* The seed of line 17 of initialize_mpi without the rank, and the seed of
\* a default-constructed std::mt19937_64.
BaseSeed == 12345
DefaultSeed == 5489

\* One process that did not call initialize_mpi: rand_gen as constructed at
\* line 9, no value drawn from it yet.
OneGenerator ==
    /\ mpi = <<>> /\ rank = <<>> /\ calls = <<>>
    /\ rand_gen = [seed |-> DefaultSeed, draws |-> 0]

\* The generator g after n values were drawn from it.
Drawn(g, n) == [g EXCEPT !.draws = g.draws + n]

(* ---------------------------------------------------------------------- *)
(* Specification SpecDist: the distance cache under single-particle moves  *)
(* ---------------------------------------------------------------------- *)

DistCoords == {- Fx(1, 4), Fx(1, 2)}

\* A solver whose cache was filled by initialize_distance_matrix.
InitDist ==
    /\ \E nd \in 1 .. 3, np \in 2 .. MaxParticles :
          /\ config = MkConfig("SYMMETRIC", "ON", "ON", nd, np, Fx(1, 10))
          /\ R_new \in Positions(np, nd, DistCoords)
    /\ dist = initialize_distance_matrix(Zeros(Particles, Particles), R_new)
    /\ pc = "filled" /\ ret = <<>>
    /\ IdleSolver /\ IdleSweep /\ IdleMpi

\* Particle p is moved to the column col and the cache updated for p.
MoveAndUpdate ==
    \E p \in Particles, col \in [Dims -> DistCoords] :
        /\ col # R_new[p]
        /\ R_new' = [R_new EXCEPT ![p] = col]
        /\ dist' = update_distance_matrix(dist, p, R_new')
        /\ particle' = p
        /\ pc' = "updated"
        /\ UNCHANGED <<config, alpha, beta, R_old, Psi_old, accepted_moves,
                       cycle, n_cycles, ret, sweepVars, mpiVars>>

NextDist == MoveAndUpdate

SpecDist == InitDist /\ [][NextDist]_vars

\* C2: after any sequence of single-particle moves, each followed by
\* update_distance_matrix for the moved particle, the cache is entry for
\* entry the one initialize_distance_matrix computes from the positions.
C2_UpdateEqualsInitialize ==
    dist = initialize_distance_matrix(Zeros(Particles, Particles), R_new)

\* A 3-D configuration in which a middle particle was moved, so that both a
\* row entry and a column entry of the cache were recomputed.
C2_Witness ==
    /\ pc = "updated" /\ config.dims = 3 /\ config.n_particles >= 3
    /\ particle = 1
    /\ dist[0][1] # 0 /\ dist[1][2] # 0 /\ dist[0][1] # dist[1][2]

(* ---------------------------------------------------------------------- *)
(* Specification SpecPsi: the wavefunction on arbitrary cache contents     *)
(* ---------------------------------------------------------------------- *)

\* Cached distances below, at and above the hard-sphere radius 1/2.
PsiDistances == {Fx(1, 4), Fx(1, 2), Fx(3, 4), 2 * Scale}

PsiCoords == {0, Fx(1, 2)}

\* A solver with any cache contents and any positions.
InitPsi ==
    /\ \E inter \in {"ON", "OFF"}, np \in 2 .. MaxParticles :
          /\ config = MkConfig("SYMMETRIC", inter, "ON", 1, np, Fx(1, 10))
          /\ R_new \in Positions(np, 1, PsiCoords)
          /\ \E upper \in [Pairs -> PsiDistances] :
                dist = [i \in Particles |-> [j \in Particles |->
                           IF i < j THEN upper[<<i, j>>] ELSE 0]]
    /\ pc = "call" /\ ret = <<>>
    /\ IdleSolver /\ IdleSweep /\ IdleMpi

\* Psi_f() and Psi(R) are evaluated.
EvalPsi ==
    /\ pc = "call"
    /\ ret' = [f |-> Psi_f(dist), psi |-> Psi(R_new, dist)]
    /\ pc' = "returned"
    /\ UNCHANGED <<solverVars, sweepVars, mpiVars>>

NextPsi == EvalPsi

SpecPsi == InitPsi /\ [][NextPsi]_vars

\* C6: with interaction ON, Psi_f and Psi are exactly 0 whenever some cached
\* distance dist(i, j), i < j, is at or below the hard-sphere radius; with
\* interaction OFF, Psi_f is 1 whatever the cache holds.
C6_HardSphereZero ==
    pc = "returned" =>
        /\ (config.interaction = "ON"
              /\ (\E q \in Pairs : dist[q[1]][q[2]] <= config.a))
           => (ret.f = 0 /\ ret.psi = 0)
        /\ config.interaction = "OFF" => ret.f = Scale

\* Interaction ON, and only the last pair of the loops is inside the
\* hard-sphere radius.
C6_Witness ==
    /\ pc = "returned" /\ config.interaction = "ON"
    /\ config.n_particles = 3
    /\ dist[1][2] < config.a
    /\ dist[0][1] > config.a /\ dist[0][2] > config.a
    /\ ret.f = 0

(* ---------------------------------------------------------------------- *)
(* Specification SpecEL: E_local in both modes on the same input           *)
(* ---------------------------------------------------------------------- *)

ELCoords == {0, Fx(1, 2)}

ELAlphas == {Fx(1, 2), Scale}

ELBetas == {Scale, Fx(3, 2), 2 * Scale}

ELSteps == {Fx(1, 10), Fx(1, 5)}

\* A solver without interaction, in analytic mode first as in main's loop
\* over {ON, OFF}, on any positions; the cache matches the positions.
InitEL ==
    /\ \E ho \in {"SYMMETRIC", "ELLIPTICAL"}, nd \in 1 .. 3,
          np \in 1 .. MaxParticles - 1, hh \in ELSteps :
          /\ config = MkConfig(ho, "OFF", "ON", nd, np, hh)
          /\ R_new \in Positions(np, nd, ELCoords)
    /\ alpha \in ELAlphas /\ beta \in ELBetas
    /\ dist = initialize_distance_matrix(Zeros(Particles, Particles), R_new)
    /\ pc = "call"
    /\ ret = [ON |-> NaN, OFF |-> NaN]
    /\ R_old = <<>> /\ Psi_old = 0
    /\ accepted_moves = 0 /\ cycle = 0 /\ particle = 0 /\ n_cycles = 0
    /\ IdleSweep /\ IdleMpi

\* E_local(R_new) runs in the configured mode; its value is kept under the
\* mode's name.
CallELocal ==
    /\ pc = "call"
    /\ LET e == E_local(R_new, dist)
       IN  /\ ret' = [ret EXCEPT ![config.acceleration] = e.val]
           /\ R_new' = e.R
           /\ dist' = e.dist
    /\ pc' = "returned"
    /\ UNCHANGED <<config, alpha, beta, R_old, Psi_old, accepted_moves,
                   cycle, particle, n_cycles, sweepVars, mpiVars>>

\* The next solver differs in the acceleration only (main, lines 61-62).
SwitchMode ==
    /\ pc = "returned" /\ config.acceleration = "ON"
    /\ config' = [config EXCEPT !.acceleration = "OFF"]
    /\ pc' = "call"
    /\ UNCHANGED <<alpha, beta, dist, R_old, R_new, Psi_old, accepted_moves,
                   cycle, particle, n_cycles, ret, sweepVars, mpiVars>>

NextEL == CallELocal \/ SwitchMode

SpecEL == InitEL /\ [][NextEL]_vars

\* The tolerance of the cross-check: ten times h^2.
Tolerance == 10 * MulFx(config.h, config.h)

\* Both modes have returned a number for the same input.
BothModes ==
    /\ pc = "returned" /\ config.acceleration = "OFF"
    /\ IsNum(ret.ON) /\ IsNum(ret.OFF)

\* C7: without interaction, the analytic and the numeric local energy of
\* the same positions, alpha, beta, dimensionality and trap shape differ by
\* at most ten times h^2, also in 3-D with beta # 1.
C7_ModesAgree ==
    BothModes =>
        Abs(ret.ON.v - ret.OFF.v)
            <= Tolerance

\* The cross-check where beta plays no part: below three dimensions, or
\* with beta = 1.  (Psi_g has no beta, the analytic formula has.)
ModesAgreeIsotropic ==
    (BothModes /\ (config.dims < 3 \/ beta = Scale)) =>
        Abs(ret.ON.v - ret.OFF.v)
            <= Tolerance

(* ---------------------------------------------------------------------- *)
(* Specification SpecMC: one Metropolis run, run_MC(n_cycles)              *)
(* ---------------------------------------------------------------------- *)

\* Values of centered(rand_gen), in [-0.5, 0.5), and of unif(rand_gen),
\* in [0, 1).
CenteredDraws == {- Fx(1, 2), Fx(1, 4)}

UnifDraws == {0, Fx(1, 2)}

\* The test of line 212: u <= (Psi_new * Psi_new) / (Psi_old * Psi_old).
Accepts(u, psi_new, psi_old) ==
    LeqD(Num(u), DivD(MulFx(psi_new, psi_new), MulFx(psi_old, psi_old)))

\* The state after the branch of lines 213-218; st holds R_old, R_new, the
\* cache, Psi_old and accepted_moves, i is the moved particle.
AcceptBranch(st, i, psi_new) ==
    [st EXCEPT !.accepted_moves = st.accepted_moves + 1,
               !.Psi_old = psi_new,
               !.R_old = [st.R_old EXCEPT ![i] = st.R_new[i]]]

\* The branch of lines 222-225 without the call of update_distance_matrix.
RejectBranchNoUpdate(st, i, psi_new) ==
    [st EXCEPT !.R_new = [st.R_new EXCEPT ![i] = st.R_old[i]]]

\* The branch of lines 222-225 without the copy back into R_new.
RejectBranchNoRestore(st, i, psi_new) ==
    [st EXCEPT !.dist = update_distance_matrix(st.dist, i, st.R_old)]

\* The state after the branch of lines 222-225.
RejectBranch(st, i, psi_new) ==
    [st EXCEPT !.dist = update_distance_matrix(st.dist, i, st.R_old),
               !.R_new = [st.R_new EXCEPT ![i] = st.R_old[i]]]

\* Lines 203-226 for particle i, the displacement delta (step_length times
\* the draws of centered) and the draw u of unif.
MoveParticle(st, i, delta, u) ==
    LET Rn == [st.R_new EXCEPT ![i] = [d \in Dims |-> st.R_old[i][d] + delta[d]]]
        d1 == update_distance_matrix(st.dist, i, Rn)
        psi_new == Psi(Rn, d1)
        trial == [st EXCEPT !.R_new = Rn, !.dist = d1]
    IN  IF Accepts(u, psi_new, st.Psi_old)
        THEN AcceptBranch(trial, i, psi_new)
        ELSE RejectBranch(trial, i, psi_new)

MCConfigs ==
    {MkConfig("SYMMETRIC", inter, acc, nd, np, Fx(1, 10)) :
        inter \in {"ON", "OFF"}, acc \in {"ON", "OFF"},
        nd \in {1}, np \in 1 .. MaxParticles - 1}

\* A constructed solver (lines 14-18) on which run_MC(n_cycles) is called.
InitMC ==
    /\ config \in MCConfigs
    /\ n_cycles \in 0 .. MaxCycles
    /\ alpha = Fx(1, 2) /\ beta = Scale
    /\ R_old = Zeros(Particles, Dims) /\ R_new = Zeros(Particles, Dims)
    /\ dist = Zeros(Particles, Particles)
    /\ Psi_old = 0 /\ accepted_moves = 0 /\ cycle = 0 /\ particle = 0
    /\ pc = "start" /\ ret = <<>>
    /\ IdleSweep /\ OneGenerator

\* The position of the loops after the body for (cycle, particle) ran.
AfterBody ==
    IF particle + 1 < config.n_particles
    THEN /\ particle' = particle + 1 /\ cycle' = cycle /\ pc' = "move"
    ELSE /\ particle' = particle /\ cycle' = cycle + 1
         /\ pc' = IF cycle + 1 <= n_cycles THEN "cycle" ELSE "finish"

\* Lines 190-194: the starting point from the draws c of centered.
StartPositions(c) ==
    [i \in Particles |-> [d \in Dims |-> MulFx(config.step_length, c[i][d])]]

\* Lines 185-198: random starting point, the cache filled from it.
MCStart ==
    /\ pc = "start"
    /\ \E c \in [Particles -> [Dims -> CenteredDraws]] :
          LET R0 == StartPositions(c)
          IN  /\ R_old' = R0 /\ R_new' = R0
              /\ dist' = initialize_distance_matrix(dist, R0)
    /\ rand_gen' = Drawn(rand_gen, config.n_particles * config.dims)
    /\ accepted_moves' = 0
    /\ cycle' = 1
    /\ pc' = IF 1 <= n_cycles THEN "cycle" ELSE "finish"
    /\ UNCHANGED <<config, alpha, beta, Psi_old, particle, n_cycles, ret,
                   sweepVars, mpi, rank, calls>>

\* Line 200 and the head of the loop over the particles.
MCCycle ==
    /\ pc = "cycle"
    /\ Psi_old' = Psi(R_old, dist)
    /\ particle' = 0
    /\ IF 0 < config.n_particles
       THEN cycle' = cycle /\ pc' = "move"
       ELSE /\ cycle' = cycle + 1
            /\ pc' = IF cycle + 1 <= n_cycles THEN "cycle" ELSE "finish"
    /\ UNCHANGED <<config, alpha, beta, dist, R_old, R_new, accepted_moves,
                   n_cycles, ret, sweepVars, mpiVars>>

\* Lines 203-226: the trial move of the particle and its decision.
MCMove ==
    /\ pc = "move"
    /\ \E c \in [Dims -> CenteredDraws], u \in UnifDraws :
          LET delta == [d \in Dims |-> MulFx(config.step_length, c[d])]
              st == MoveParticle(
                        [R_old |-> R_old, R_new |-> R_new, dist |-> dist,
                         Psi_old |-> Psi_old,
                         accepted_moves |-> accepted_moves],
                        particle, delta, u)
          IN  /\ R_old' = st.R_old /\ R_new' = st.R_new
              /\ dist' = st.dist /\ Psi_old' = st.Psi_old
              /\ accepted_moves' = st.accepted_moves
    /\ rand_gen' = Drawn(rand_gen, config.dims + 1)
    /\ pc' = "energy"
    /\ UNCHANGED <<config, alpha, beta, cycle, particle, n_cycles, ret,
                   sweepVars, mpi, rank, calls>>

\* Lines 229-231: E_local(R_new), which works on R_new and the cache in
\* place, then the loop increments.  The sums E_sum and E2_sum are written
\* only; they are not part of the state.
MCEnergy ==
    /\ pc = "energy"
    /\ LET e == E_local(R_new, dist)
       IN  R_new' = e.R /\ dist' = e.dist
    /\ AfterBody
    /\ UNCHANGED <<config, alpha, beta, R_old, Psi_old, accepted_moves,
                   n_cycles, ret, sweepVars, mpiVars>>

\* accepted_moves / (double) (n_cycles * n_particles), line 237.
AcceptanceRate(accepted, cycles, np) ==
    DivD(accepted * Scale, cycles * np * Scale)

\* Value number k (from 0) of a sequence of draws, taken round and round.
At(seq, k) == seq[(k % Len(seq)) + 1]

\* Line 200 where move number m is the first of its cycle.
CycleHead(st, m) ==
    IF m % config.n_particles = 0
    THEN [st EXCEPT !.Psi_old = Psi(st.R_old, st.dist)]
    ELSE st

\* The displacement of move number m (line 204): step_length times the
\* values centered yields, which follow those of the starting point.
Displacement(m, tape) ==
    [d \in Dims |->
        MulFx(config.step_length,
              At(tape.centered, (config.n_particles + m) * config.dims + d))]

\* Lines 230-231 for the value e of E_local, with R_new and the cache as
\* E_local left them.
AddEnergy(st, e) ==
    [st EXCEPT !.R_new = e.R, !.dist = e.dist,
               !.E_sum = AddD(st.E_sum, e.val),
               !.E2_sum = AddD(st.E2_sum, SquareD(e.val))]

\* Lines 229-231.
UpdateAverages(st) == AddEnergy(st, E_local(st.R_new, st.dist))

\* The loops of lines 199-233 from move number m on (cycle m \div
\* n_particles + 1, particle m % n_particles), over total moves; st holds
\* the locals of run_MC and the cache, tape the values that centered and
\* unif yield.
RECURSIVE MCLoop(_, _, _, _)
MCLoop(st, m, total, tape) ==
    IF m >= total THEN st
    ELSE MCLoop(UpdateAverages(
                    MoveParticle(CycleHead(st, m), m % config.n_particles,
                                 Displacement(m, tape), At(tape.unif, m))),
                m + 1, total, tape)

\* Lines 185-198 with the values of tape as the draws, on the cache d.
MCLocals(d, R0) ==
    [R_old |-> R0, R_new |-> R0,
     dist |-> initialize_distance_matrix(d, R0),
     Psi_old |-> 0, accepted_moves |-> 0,
     E_sum |-> Num(0), E2_sum |-> Num(0)]

\* Lines 234-236: variance from the two means.
Variance(energy, energy_squared) == SubD(energy_squared, SquareD(energy))

\* Lines 234-238 for the locals st after the loops.
MCResults(st, cycles) ==
    [res |-> [E |-> DivByCount(st.E_sum, cycles * config.n_particles),
              E2 |-> DivByCount(st.E2_sum, cycles * config.n_particles),
              variance |->
                  Variance(DivByCount(st.E_sum, cycles * config.n_particles),
                           DivByCount(st.E2_sum, cycles * config.n_particles)),
              alpha |-> Num(alpha), beta |-> Num(beta),
              acceptance_rate |->
                  AcceptanceRate(st.accepted_moves, cycles,
                                 config.n_particles)],
     dist |-> st.dist,
     draws |-> config.n_particles * config.dims
               + cycles * config.n_particles * (config.dims + 1)]

\* run_MC(cycles) as one call on the cache d, with the values of tape as
\* the draws: the Results returned, the cache as left and the number of
\* values drawn.
run_MC(cycles, d, tape) ==
    MCResults(
        MCLoop(MCLocals(d, StartPositions(
                   [i \in Particles |-> [k \in Dims |->
                       At(tape.centered, i * config.dims + k)]])),
               0, cycles * config.n_particles, tape),
        cycles)

\* Lines 234-238: the Results of the run (its acceptance_rate, alpha, beta).
MCFinish ==
    /\ pc = "finish"
    /\ ret' = [alpha |-> alpha, beta |-> beta,
               acceptance_rate |->
                   AcceptanceRate(accepted_moves, n_cycles, config.n_particles)]
    /\ pc' = "done"
    /\ UNCHANGED <<solverVars, sweepVars, mpiVars>>

NextMC == MCStart \/ MCCycle \/ MCMove \/ MCEnergy \/ MCFinish

SpecMC == InitMC /\ [][NextMC]_vars

\* The distances of the accepted positions R_old are what the cache holds.
CacheMatchesAccepted ==
    \A q \in Pairs : dist[q[1]][q[2]] = NormDiff(R_old[q[1]], R_old[q[2]])

\* C1: in a run of run_MC, in every interaction and local-energy mode, from
\* the first fill on (so after every move decision and after every return
\* of E_local) each cache entry dist(i, j), i < j, is the distance of the
\* accepted positions of i and j.
C1_CacheConsistent == pc # "start" => CacheMatchesAccepted

\* E_local has returned in numeric mode with interaction ON, in a run with
\* two particles that has seen both a rejected and an accepted move.
C1_Witness ==
    /\ pc = "finish" /\ n_cycles = 2
    /\ config.interaction = "ON" /\ config.acceleration = "OFF"
    /\ config.n_particles = 2
    /\ accepted_moves \in 1 .. 3
    /\ dist[0][1] > config.a

\* The moves decided so far in the run.
Attempted ==
    CASE pc = "start" -> 0
      [] pc = "move" -> (cycle - 1) * config.n_particles + particle
      [] pc = "energy" -> (cycle - 1) * config.n_particles + particle + 1
      [] OTHER -> (cycle - 1) * config.n_particles

\* C5: accepted_moves never exceeds the moves attempted so far, and the
\* acceptance rate a run reports is a number in [0, 1], accepted moves over
\* attempted moves (n_cycles * n_particles).
C5_AcceptanceRate ==
    /\ accepted_moves <= Attempted
    /\ pc = "done" =>
          /\ IsNum(ret.acceptance_rate)
          /\ 0 <= ret.acceptance_rate.v /\ ret.acceptance_rate.v <= Scale
          /\ Attempted = n_cycles * config.n_particles
          /\ ret.acceptance_rate.v
                = DivFx(accepted_moves * Scale, Attempted * Scale)

\* The claim of C5 for the runs with at least one cycle.
AcceptanceRateAfterMoves ==
    /\ accepted_moves <= Attempted
    /\ (pc = "done" /\ n_cycles >= 1) =>
          /\ IsNum(ret.acceptance_rate)
          /\ 0 <= ret.acceptance_rate.v /\ ret.acceptance_rate.v <= Scale
          /\ Attempted = n_cycles * config.n_particles
          /\ ret.acceptance_rate.v
                = DivFx(accepted_moves * Scale, Attempted * Scale)

\* Step of MCMove for the displacement factor c of the moved particle.
MovedBy(c) ==
    R_old'[particle] =
        [d \in Dims |-> R_old[particle][d] + MulFx(config.step_length, c[d])]

\* C9: a rejected move leaves R_old and Psi_old as they were; an accepted
\* move changes R_old in the column of the moved particle only, to the
\* trial position, and sets Psi_old to the trial wavefunction value; after
\* either, R_new = R_old and Psi_old is the wavefunction value of R_old.
C9_MoveFrame ==
    [][pc = "move" =>
        /\ accepted_moves' = accepted_moves =>
              (R_old' = R_old /\ Psi_old' = Psi_old)
        /\ accepted_moves' # accepted_moves =>
              /\ accepted_moves' = accepted_moves + 1
              /\ \A j \in Particles \ {particle} : R_old'[j] = R_old[j]
              /\ \E c \in [Dims -> CenteredDraws] : MovedBy(c)
        /\ R_new' = R_old'
        /\ Psi_old' = Psi(R_old', dist')]_vars

\* A move was just decided in a run of two interacting particles that has
\* by now seen both an accepted and a rejected move.
C9_Witness ==
    /\ pc = "energy" /\ config.interaction = "ON"
    /\ config.n_particles = 2
    /\ accepted_moves >= 1 /\ accepted_moves < Attempted
    /\ R_old[0] # R_old[1]

\* Some two particles of R are within the hard-sphere radius.
Overlapping(R) ==
    \E q \in Pairs : NormDiff(R[q[1]], R[q[2]]) <= config.a

\* C10: with interaction ON, no move takes accepted positions without
\* overlap to accepted positions with an overlap, whatever unif draws.
C10_NoOverlapCommitted ==
    [][(pc = "move" /\ config.interaction = "ON" /\ ~ Overlapping(R_old))
          => ~ Overlapping(R_old')]_vars

(* ---------------------------------------------------------------------- *)
(* Specification SpecSweep: the sweep vmc(n_cycles, out, ...)              *)
(* ---------------------------------------------------------------------- *)

\* Largest number of grid points per axis.
MaxGrid == 2

\* arma::linspace<arma::vec>(start, end, n): n points, the last one end.
Linspace(start, end, n) ==
    IF n = 0 THEN <<>>
    ELSE IF n = 1 THEN <<end>>
    ELSE LET delta == (end - start) \div (n - 1)
         IN  [k \in 1 .. n |->
                 IF k = n THEN end ELSE start + (k - 1) * delta]

\* The first line written to out.
Header == "# alpha beta <E> <E^2>"

\* A finite double that the build decides and the model does not hold:
\* this one value stands for every finite double.
AnyFinite == [tag |-> "finite", v |-> 0]

\* What an uninitialised field of the local best may be read as: any
\* double, which is a NaN, an infinity or a finite double.
Uninitialised == {NaN, PosInf, NegInf, AnyFinite}

\* The values that centered and unif yield during one run_MC call.
Tapes ==
    {[centered |-> <<- Fx(1, 2), Fx(1, 4)>>, unif |-> <<Fx(1, 2)>>],
     [centered |-> <<Fx(1, 4)>>, unif |-> <<0>>]}

\* Lines 269-272 written only when the point improves on best.
WriteLineIfBetter(o, r) ==
    IF LessD(r.variance, best.variance)
    THEN Append(o, [alpha |-> alpha, beta |-> beta, E |-> r.E, E2 |-> r.E2])
    ELSE o

\* The stream o after lines 269-272 for the Results r.
WriteLine(o, r) ==
    Append(o, [alpha |-> alpha, beta |-> beta, E |-> r.E, E2 |-> r.E2])

\* Lines 275-276: the best of b and r.
KeepBest(b, r) == IF LessD(r.variance, b.variance) THEN r ELSE b

\* The fields of Results that lines 252-253 leave without a value.
Unassigned == {"E", "E2", "alpha", "beta", "acceptance_rate"}

\* What return best (line 282) may give: best itself once a Results was
\* assigned to it (line 276); before, the fields other than variance are
\* read uninitialised.
Returned(b) ==
    IF DOMAIN b = {"variance"}
    THEN {[E |-> g["E"], E2 |-> g["E2"], variance |-> b.variance,
           alpha |-> g["alpha"], beta |-> g["beta"],
           acceptance_rate |-> g["acceptance_rate"]] :
              g \in [Unassigned -> Uninitialised]}
    ELSE {b}

\* A solver on which vmc is called with a grid of alpha_n by beta_n points,
\* set up as main does: interaction OFF, here with the analytic local
\* energy.  On the draws of Tapes and the alphas of the grid its values are
\* held exactly, and two runs have either the same variance or variances
\* further apart than the resolution, so that line 275 compares as in the
\* code.
\* The members R_old and R_new stay as constructed: run_MC works on locals.
InitSweep ==
    /\ config = MkConfig("SYMMETRIC", "OFF", "ON", 1, 2, Fx(1, 10))
    /\ n_cycles \in 0 .. 1
    /\ \E an \in 0 .. MaxGrid, bn \in 0 .. 2 :
          grid = [alpha_min |-> Fx(1, 2), alpha_max |-> Scale, alpha_n |-> an,
                  beta_min |-> Scale, beta_max |-> 2 * Scale, beta_n |-> bn,
                  alphas |-> <<>>, betas |-> <<>>]
    /\ alpha = 0 /\ beta = 0
    /\ dist = Zeros(Particles, Particles)
    /\ R_old = Zeros(Particles, Dims) /\ R_new = Zeros(Particles, Dims)
    /\ Psi_old = 0 /\ accepted_moves = 0 /\ cycle = 0 /\ particle = 0
    /\ pc = "vmc" /\ ret = <<>>
    /\ out = <<>> /\ flushes = 0 /\ best = <<>> /\ idx = <<>>
    /\ res = <<>> /\ evaluated = <<>>
    /\ OneGenerator

\* Lines 252-260: best with its variance set, the grid, the header.
VmcBegin ==
    /\ pc = "vmc"
    /\ best' = [variance |-> MaxDouble]
    /\ grid' = [grid EXCEPT
                  !.alphas = Linspace(grid.alpha_min, grid.alpha_max, grid.alpha_n),
                  !.betas = Linspace(grid.beta_min, grid.beta_max, grid.beta_n)]
    /\ out' = Append(out, Header)
    /\ idx' = [a |-> 1, b |-> 1]
    /\ pc' = "alpha"
    /\ UNCHANGED <<solverVars, ret, flushes, res, evaluated, mpiVars>>

\* Lines 264-265: the head of the loop over alphas.
VmcAlpha ==
    /\ pc = "alpha"
    /\ IF idx.a <= Len(grid.alphas)
       THEN /\ alpha' = grid.alphas[idx.a]
            /\ idx' = [idx EXCEPT !.b = 1]
            /\ pc' = "beta"
       ELSE /\ pc' = "flush"
            /\ UNCHANGED <<alpha, idx>>
    /\ UNCHANGED <<config, beta, dist, R_old, R_new, Psi_old, accepted_moves,
                   cycle, particle, n_cycles, ret, out, flushes, best, grid,
                   res, evaluated, mpiVars>>

\* Lines 266-267: the head of the loop over betas.
VmcBeta ==
    /\ pc = "beta"
    /\ IF idx.b <= Len(grid.betas)
       THEN /\ beta' = grid.betas[idx.b]
            /\ pc' = "run"
            /\ idx' = idx
       ELSE /\ idx' = [idx EXCEPT !.a = idx.a + 1]
            /\ pc' = "alpha"
            /\ beta' = beta
    /\ UNCHANGED <<config, alpha, dist, R_old, R_new, Psi_old, accepted_moves,
                   cycle, particle, n_cycles, ret, out, flushes, best, grid,
                   res, evaluated, mpiVars>>

\* The state of vmc when its run_MC call returned r.
Returns(r) ==
    /\ res' = r.res
    /\ dist' = r.dist
    /\ rand_gen' = Drawn(rand_gen, r.draws)
    /\ evaluated' = Append(evaluated, r.res)

\* Line 268: the call run_MC(n_cycles), which rewrites the cache and draws
\* from rand_gen.
VmcRun ==
    /\ pc = "run"
    /\ \E tape \in Tapes : Returns(run_MC(n_cycles, dist, tape))
    /\ pc' = "emit"
    /\ UNCHANGED <<config, alpha, beta, R_old, R_new, Psi_old,
                   accepted_moves, cycle, particle, n_cycles, ret, out,
                   flushes, best, grid, idx, mpi, rank, calls>>

\* Lines 269-276: the line of the point, and the comparison with best.
VmcEmit ==
    /\ pc = "emit"
    /\ out' = WriteLine(out, res)
    /\ best' = KeepBest(best, res)
    /\ idx' = [idx EXCEPT !.b = idx.b + 1]
    /\ pc' = "beta"
    /\ UNCHANGED <<solverVars, ret, flushes, grid, res, evaluated, mpiVars>>

\* Lines 280-282: the flush and the return of best.
VmcFlush ==
    /\ pc = "flush"
    /\ flushes' = flushes + 1
    /\ ret' \in Returned(best)
    /\ pc' = "done"
    /\ UNCHANGED <<solverVars, out, best, grid, idx, res, evaluated, mpiVars>>

NextSweep ==
    VmcBegin \/ VmcAlpha \/ VmcBeta \/ VmcRun \/ VmcEmit \/ VmcFlush

SpecSweep == InitSweep /\ [][NextSweep]_vars

\* The grid points in the order of the loops: alpha outer, beta inner.
GridPoint(k) ==
    [alpha |-> grid.alphas[((k - 1) \div Len(grid.betas)) + 1],
     beta |-> grid.betas[((k - 1) % Len(grid.betas)) + 1]]

\* C3: the record a sweep returns is the record of one of the grid points
\* it evaluated, and its variance is <= the variance of every grid point
\* evaluated (stated for the sweeps that evaluated at least one point).
C3_BestIsMinimum ==
    (pc = "done" /\ evaluated # <<>>) =>
        /\ \E k \in 1 .. Len(evaluated) : ret = evaluated[k]
        /\ \A k \in 1 .. Len(evaluated) :
              LeqD(ret.variance, evaluated[k].variance)

\* The claim of C3 for the sweeps in which some run reported a variance
\* that is a number: the first record of least variance among those.
BestAmongNumbers ==
    (pc = "done" /\ \E k \in 1 .. Len(evaluated) : IsNum(evaluated[k].variance))
    => /\ \E k \in 1 .. Len(evaluated) : ret = evaluated[k]
       /\ \A k \in 1 .. Len(evaluated) :
             IsNum(evaluated[k].variance)
                => LeqD(ret.variance, evaluated[k].variance)

\* C4: a sweep writes the header first, then one line per grid point in
\* grid order (alpha outer, beta inner), each after the run of its point
\* returned and carrying that run's energies, and flushes once, after the
\* last point: (grid points + 1) lines in all.
C4_OutputStream ==
    /\ pc = "vmc" => out = <<>>
    /\ pc # "vmc" =>
          /\ Len(out) >= 1 /\ out[1] = Header
          /\ Len(evaluated) = Len(out) - 1 + (IF pc = "emit" THEN 1 ELSE 0)
    /\ \A k \in 2 .. Len(out) :
          out[k] = [alpha |-> GridPoint(k - 1).alpha,
                    beta |-> GridPoint(k - 1).beta,
                    E |-> evaluated[k - 1].E, E2 |-> evaluated[k - 1].E2]
    /\ flushes = (IF pc = "done" THEN 1 ELSE 0)
    /\ pc = "done" => Len(out) = grid.alpha_n * grid.beta_n + 1

\* A finished sweep over a 2 x 2 grid of distinct points, in which the
\* second point did not improve on the first and the third is worse.
C4_Witness ==
    /\ pc = "done" /\ flushes = 1
    /\ grid.alpha_n = 2 /\ grid.beta_n = 2 /\ Len(out) = 5
    /\ out[2].alpha # out[4].alpha /\ out[2].beta # out[3].beta
    /\ IsNum(evaluated[1].variance)
    /\ ~ LessD(evaluated[2].variance, evaluated[1].variance)
    /\ LessD(evaluated[1].variance, evaluated[3].variance)

(* ---------------------------------------------------------------------- *)
(* Specification SpecMpi: initialize_mpi in the processes of a job         *)
(* ---------------------------------------------------------------------- *)

\* Largest rank, and most calls of initialize_mpi and draws per process.
MaxRank == 1
MaxCalls == 2
MaxDraws == 1

\* Two processes: two ranks of one job, or two runs of one rank.
Procs == {"p", "q"}

\* The rank of process p in the job.
get_rank(p) == rank[p]

\* Lines 10-18 on the MPI state m, the generator g and the rank r that
\* get_rank() returns: the MPI state and the generator after the call.
initialize_mpi(m, g, r) ==
    IF ~ m.inited
    THEN [mpi |-> [m EXCEPT !.inited = TRUE,
                            !.init_calls = m.init_calls + 1,
                            !.hooks = m.hooks + 1],
          rand_gen |-> [seed |-> BaseSeed + r, draws |-> 0]]
    ELSE [mpi |-> m, rand_gen |-> g]

\* Lines 21-27 on the MPI state m.
library_onexit(m) ==
    IF ~ m.finalized THEN [m EXCEPT !.finalized = TRUE] ELSE m

\* Processes at their start: MPI not initialised, no exit hook, the
\* generator as constructed at line 9 of the solver.
InitMpi ==
    /\ mpi = [p \in Procs |-> [inited |-> FALSE, init_calls |-> 0,
                               hooks |-> 0, finalized |-> FALSE,
                               exited |-> FALSE]]
    /\ rand_gen = [p \in Procs |-> [seed |-> DefaultSeed, draws |-> 0]]
    /\ rank \in [Procs -> 0 .. MaxRank]
    /\ calls = [p \in Procs |-> 0]
    /\ config = <<>> /\ dist = <<>> /\ R_new = <<>>
    /\ pc = "run" /\ ret = <<>>
    /\ IdleSolver /\ IdleSweep

\* Process p calls initialize_mpi().
CallInitializeMpi ==
    \E p \in Procs :
        /\ ~ mpi[p].exited /\ calls[p] < MaxCalls
        /\ LET after == initialize_mpi(mpi[p], rand_gen[p], get_rank(p))
           IN  /\ mpi' = [mpi EXCEPT ![p] = after.mpi]
               /\ rand_gen' = [rand_gen EXCEPT ![p] = after.rand_gen]
        /\ calls' = [calls EXCEPT ![p] = calls[p] + 1]
        /\ UNCHANGED <<solverVars, pc, ret, sweepVars, rank>>

\* Process p draws a number from rand_gen (as centered and unif do).
Draw ==
    \E p \in Procs :
        /\ ~ mpi[p].exited /\ rand_gen[p].draws < MaxDraws
        /\ rand_gen' = [rand_gen EXCEPT ![p].draws = rand_gen[p].draws + 1]
        /\ UNCHANGED <<solverVars, pc, ret, sweepVars, mpi, rank, calls>>

\* MPI_Init called in process p by other code than initialize_mpi (the
\* program that uses the library, or another library), which is the case
\* the test of MPI_Initialized at lines 10-11 is there for.
MpiInitElsewhere ==
    \E p \in Procs :
        /\ ~ mpi[p].exited /\ ~ mpi[p].inited
        /\ mpi' = [mpi EXCEPT ![p] =
                      [mpi[p] EXCEPT !.inited = TRUE,
                                     !.init_calls = mpi[p].init_calls + 1]]
        /\ UNCHANGED <<solverVars, pc, ret, sweepVars, rand_gen, rank, calls>>

\* Process p calls library_onexit() itself.
CallLibraryOnexit ==
    \E p \in Procs :
        /\ ~ mpi[p].exited
        /\ mpi' = [mpi EXCEPT ![p] = library_onexit(mpi[p])]
        /\ UNCHANGED <<solverVars, pc, ret, sweepVars, rand_gen, rank, calls>>

\* Process p exits: the registered exit hooks run.
ProcessExit ==
    \E p \in Procs :
        /\ ~ mpi[p].exited
        /\ mpi' = [mpi EXCEPT ![p] =
                      [(IF mpi[p].hooks > 0 THEN library_onexit(mpi[p])
                        ELSE mpi[p]) EXCEPT !.exited = TRUE]]
        /\ UNCHANGED <<solverVars, pc, ret, sweepVars, rand_gen, rank, calls>>

NextMpi ==
    \/ CallInitializeMpi
    \/ Draw
    \/ MpiInitElsewhere
    \/ CallLibraryOnexit
    \/ ProcessExit

SpecMpi == InitMpi /\ [][NextMpi]_vars

\* C8: in each process the first call of initialize_mpi seeds the generator
\* with 12345 + rank, initialises MPI and registers the exit hook; a later
\* call changes neither the generator nor the MPI state nor the hooks;
\* nothing else seeds; so the generator is seeded exactly once, and two
\* processes that made the call have equal seeds exactly if their ranks
\* are equal.
C8_SeededOnce ==
    [][\A p \in Procs :
        /\ (calls'[p] = calls[p] + 1 /\ calls[p] = 0) =>
              /\ rand_gen'[p] = [seed |-> BaseSeed + rank[p], draws |-> 0]
              /\ mpi'[p].inited /\ mpi'[p].init_calls = 1
              /\ mpi'[p].hooks = 1
        /\ (calls'[p] = calls[p] + 1 /\ calls[p] >= 1) =>
              (rand_gen'[p] = rand_gen[p] /\ mpi'[p] = mpi[p])
        /\ calls'[p] = calls[p] => rand_gen'[p].seed = rand_gen[p].seed
        /\ \A q \in Procs :
              (calls'[p] >= 1 /\ calls'[q] >= 1) =>
                  ((rank[p] = rank[q])
                      <=> (rand_gen'[p].seed = rand_gen'[q].seed))]_vars

\* What the code does do: the call that finds MPI not initialised seeds
\* with 12345 + rank, calls MPI_Init and registers one more hook; a call
\* that finds MPI initialised, by whomever, changes nothing; and no other
\* step seeds.
SeedsOnlyWithMpiInit ==
    [][\A p \in Procs :
        /\ (calls'[p] = calls[p] + 1 /\ ~ mpi[p].inited) =>
              /\ rand_gen'[p] = [seed |-> BaseSeed + rank[p], draws |-> 0]
              /\ mpi'[p].inited
              /\ mpi'[p].init_calls = mpi[p].init_calls + 1
              /\ mpi'[p].hooks = mpi[p].hooks + 1
        /\ (calls'[p] = calls[p] + 1 /\ mpi[p].inited) =>
              (rand_gen'[p] = rand_gen[p] /\ mpi'[p] = mpi[p])
        /\ calls'[p] = calls[p] => rand_gen'[p].seed = rand_gen[p].seed
        /\ mpi'[p].init_calls <= 1 /\ mpi'[p].hooks <= 1]_vars

====
